---- MODULE Spec2Model ----
(***************************************************************************)
(* The delayed issue-close scheduling of polychaeta.py: the webhook        *)
(* endpoint, the three event handlers, the scheduler functions and the     *)
(* job store/scheduler they drive (APScheduler's BackgroundScheduler over  *)
(* a SQLAlchemyJobStore, modelled by the behaviour the calls in the source *)
(* select: add_job(replace_existing=True), get_job, remove_job, date       *)
(* triggers, the default misfire grace time).                              *)
(*                                                                         *)
(* Time is counted in whole weeks.  Strings are TLA+ strings; the job id   *)
(* is built by concatenation exactly as the format expression builds it.   *)
(*                                                                         *)
(* Spec serves one delivery at a time; SpecApi calls the scheduler         *)
(* functions directly; SpecRace serves the cancelling comments on two      *)
(* worker threads, one scheduler call per step; SpecId builds job ids for  *)
(* issues of several repositories.                                         *)
(***************************************************************************)
EXTENDS Integers, Sequences, FiniteSets, TLC

\* ------------------------------------------------------------------ bounds
\* Issue numbers of the repository are 1..MaxIssue.
MaxIssue == 1
\* The clock runs from 0 to MaxTime.
MaxTime == 2

\* ------------------------------------------------------- program constants
\* datetime.timedelta(weeks=1), in the model's unit of time (one week).
Week == 1
\* BackgroundScheduler(jobstores=jobstores) sets no job_defaults, so every job
\* gets the library default misfire_grace_time of one second: less than one
\* unit of time, so a job found later than its run date by any whole number of
\* units is beyond it.
MisfireGrace == 0

autoclosemsg == "This issue will be automatically closed in one week unless there is further activity."
noautoclosemsg == "This issue will no longer be automatically closed."
triggerlabel == "autoclose"
\* g.get_user().login
my_user == "bot"

\* ------------------------------------------------------------- the platform
None == "None"
NoDate == 0 - 1

RepoName == "frr/frr"
Numbers == 1 .. MaxIssue
\* Collaborators of the repository besides the bot.
Users == {my_user, "alice", "bob"}
\* repo.get_collaborator_permission(sender)
get_collaborator_permission(login) ==
    IF login = "alice" THEN "admin" ELSE "write"

\* github.Issue.Issue: number is the per-repository issue number, id is the
\* platform-wide database id of the issue, which is not the number.
InternalId(n) == MaxIssue + n
get_issue(n) ==
    [repository |-> [full_name |-> RepoName], number |-> n, id |-> InternalId(n)]

\* The platform operation that raises GithubException while one request or
\* one job is served (None: every call succeeds).
CloseOps == {"get_repo", "get_issue", "edit", "remove_from_labels"}
Fails(fail, op) == fail = op

\* ------------------------------------------------------------ the job store
\* The id built without the separator.
issueid_bare(reponame, issuenum) == reponame \o ToString(issuenum)

\* "{}@@@{}".format(reponame, issuenum)
issueid(reponame, issuenum) == reponame \o "@@@" \o ToString(issuenum)

Job(id, when, args) == [id |-> id, run_at |-> when, args |-> args]

JobsOf(s, id) == {j \in s : j.id = id}

\* What get_job answers when no job has the id (Python's None).
NoJob == [id |-> None, run_at |-> NoDate, args |-> <<>>]

\* get_job that finds no job.
get_job_blind(s, id) == NoJob

\* scheduler.get_job(id): the job, or None
get_job(s, id) ==
    IF JobsOf(s, id) = {} THEN NoJob ELSE CHOOSE j \in JobsOf(s, id) : TRUE

\* add_job that stores the new job beside the one of the same id.
add_job_beside(s, job, replace_existing) == [store |-> s \cup {job}, err |-> None]

\* scheduler.add_job(..., id=id, replace_existing=...): a job of the same id is
\* updated in place when replace_existing, else ConflictingIdError is raised.
add_job(s, job, replace_existing) ==
    IF JobsOf(s, job.id) = {}
    THEN [store |-> s \cup {job}, err |-> None]
    ELSE IF replace_existing
         THEN [store |-> (s \ JobsOf(s, job.id)) \cup {job}, err |-> None]
         ELSE [store |-> s, err |-> "ConflictingIdError"]

\* remove_job that answers without deleting the job.
remove_job_keeps(s, id) ==
    [store |-> s, err |-> IF JobsOf(s, id) = {} THEN "JobLookupError" ELSE None]

\* scheduler.remove_job(id): raises JobLookupError when no job has the id.
remove_job(s, id) ==
    IF JobsOf(s, id) = {}
    THEN [store |-> s, err |-> "JobLookupError"]
    ELSE [store |-> s \ JobsOf(s, id), err |-> None]

\* A job store kept in memory: nothing is found at start.
jobstores_memory(persisted) == {}

\* jobstores = {"default": SQLAlchemyJobStore(url="sqlite:///jobs.sqlite")}:
\* what the scheduler finds at start is what was persisted.
jobstores(persisted) == persisted

\* -------------------------------------------------------- scheduler functions
\* schedule_close_issue that does not replace an existing job.
schedule_close_issue_once(s, issue, when) ==
    LET reponame == issue.repository.full_name
        issuenum == issue.number
    IN  add_job(s, Job(issueid(reponame, issuenum), when, <<reponame, issuenum>>), FALSE)

\* schedule_close_issue(issue, when)
schedule_close_issue(s, issue, when) ==
    LET reponame == issue.repository.full_name
        issuenum == issue.number
    IN  add_job(s, Job(issueid(reponame, issuenum), when, <<reponame, issuenum>>), TRUE)

\* cancel_close_issue(issue)
cancel_close_issue(s, issue) ==
    LET reponame == issue.repository.full_name
        issuenum == issue.id
    IN  remove_job(s, issueid(reponame, issuenum))

\* close_issue without the try around the label removal.
close_issue_strict(rn, num, fail) ==
    IF Fails(fail, "get_repo") \/ Fails(fail, "get_issue") \/ Fails(fail, "edit")
    THEN [calls |-> <<>>, raised |-> TRUE]
    ELSE IF Fails(fail, "remove_from_labels")
         THEN [calls |-> << <<"edit", "closed">> >>, raised |-> TRUE]
         ELSE [calls |-> << <<"edit", "closed">>, <<"remove_from_labels", triggerlabel>> >>,
               raised |-> FALSE]

\* close_issue(rn, num): the platform calls it makes, and whether it raised.
close_issue(rn, num, fail) ==
    IF Fails(fail, "get_repo") \/ Fails(fail, "get_issue") \/ Fails(fail, "edit")
    THEN [calls |-> <<>>, raised |-> TRUE]
    ELSE IF Fails(fail, "remove_from_labels")
         THEN [calls |-> << <<"edit", "closed">> >>, raised |-> FALSE]
         ELSE [calls |-> << <<"edit", "closed">>, <<"remove_from_labels", triggerlabel>> >>,
               raised |-> FALSE]

\* --------------------------------------------------------------- requests
\* What a handler leaves behind: the HTTP status, the job store, the calls it
\* made that change something (scheduler and platform), the handler that ran
\* and the run date it asked the scheduler for.
Result(resp, s, calls, handler, when, exc) ==
    [resp |-> resp, store |-> s, calls |-> calls, handler |-> handler, when |-> when,
     exc |-> exc]

\* An exception nothing catches: the framework answers 500.
Uncaught(s, calls, handler, when, exc) == Result(500, s, calls, handler, when, exc)

Bodies ==
    {[trigger |-> FALSE, tail |-> NoDate]}
    \cup {[trigger |-> TRUE, tail |-> d] : d \in {NoDate} \cup (0 .. MaxTime)}

NoBody == [trigger |-> FALSE, tail |-> NoDate]
NoPr == [warn |-> FALSE, labels |-> FALSE]

Req(sig, method, evtype, json, action, sender, has_repo, num, label, body, pr, fail) ==
    [sig |-> sig, method |-> method, evtype |-> evtype, json |-> json,
     action |-> action, sender |-> sender, has_repo |-> has_repo, num |-> num,
     label |-> label, body |-> body, pr |-> pr, fail |-> fail]

\* ------------------------------------------------------- webhook handlers
\* issue_labeled(j)
issue_labeled(j, s, t) ==
    IF ~j.has_repo
    THEN Uncaught(s, <<>>, "issue_labeled", NoDate, "KeyError")
    ELSE IF Fails(j.fail, "get_repo") \/ Fails(j.fail, "get_issue")
    THEN Uncaught(s, <<>>, "issue_labeled", NoDate, "GithubException")
    ELSE IF j.label = triggerlabel
    THEN LET issue == get_issue(j.num)
             closedate == t + Week
             a == schedule_close_issue(s, issue, closedate)
             id == issueid(issue.repository.full_name, issue.number)
         IN  IF a.err # None
             THEN Uncaught(a.store, << <<"add_job", id>> >>, "issue_labeled", closedate, a.err)
             ELSE IF Fails(j.fail, "create_comment")
             THEN Uncaught(a.store, << <<"add_job", id>> >>, "issue_labeled", closedate, "GithubException")
             ELSE Result(200, a.store,
                         << <<"add_job", id>>, <<"create_comment", autoclosemsg>> >>,
                         "issue_labeled", closedate, None)
    ELSE Result(200, s, <<>>, "issue_labeled", NoDate, None)

\* The command taken from any sender.
directed_by_anyone(body, perm) == body.trigger

\* if trigger.lower() in body.lower() and perm == "admin"
directed_at_us(body, perm) == body.trigger /\ perm = "admin"

\* The test that takes any date that parsed.
in_future_parsed(closedate, t) == closedate # NoDate

\* if closedate is not None and closedate > datetime.datetime.now()
in_future(closedate, t) == closedate # NoDate /\ closedate > t

\* issue_comment_created(j), lines 155-159: what follows the test of line 154
\* when it found a job.
issue_comment_cancel(j, s) ==
    LET id == issueid(RepoName, j.num)
        r == remove_job(s, id)
    IN  IF r.err # None
        THEN Uncaught(r.store, << <<"remove_job", id>> >>,
                      "issue_comment_created", NoDate, r.err)
        ELSE IF Fails(j.fail, "remove_from_labels")
        THEN Uncaught(r.store, << <<"remove_job", id>> >>,
                      "issue_comment_created", NoDate, "GithubException")
        ELSE IF Fails(j.fail, "create_comment")
        THEN Uncaught(r.store,
                      << <<"remove_job", id>>, <<"remove_from_labels", triggerlabel>> >>,
                      "issue_comment_created", NoDate, "GithubException")
        ELSE Result(200, r.store,
                    << <<"remove_job", id>>, <<"remove_from_labels", triggerlabel>>,
                       <<"create_comment", noautoclosemsg>> >>,
                    "issue_comment_created", NoDate, None)

\* issue_comment_created(j)
issue_comment_created(j, s, t) ==
    IF ~j.has_repo
    THEN Uncaught(s, <<>>, "issue_comment_created", NoDate, "KeyError")
    ELSE IF Fails(j.fail, "get_repo") \/ Fails(j.fail, "get_issue")
    THEN Uncaught(s, <<>>, "issue_comment_created", NoDate, "GithubException")
    ELSE IF j.sender = None
    THEN Uncaught(s, <<>>, "issue_comment_created", NoDate, "KeyError")
    ELSE IF Fails(j.fail, "get_collaborator_permission")
    THEN Uncaught(s, <<>>, "issue_comment_created", NoDate, "GithubException")
    ELSE
    LET id == issueid(RepoName, j.num)
        issue == get_issue(j.num)
        perm == get_collaborator_permission(j.sender)
    IN  IF directed_at_us(j.body, perm)
        THEN LET closedate == j.body.tail
             IN  IF in_future(closedate, t)
                 THEN LET a == schedule_close_issue(s, issue, closedate)
                      IN  IF a.err # None
                          THEN Uncaught(a.store, << <<"add_job", id>> >>,
                                        "issue_comment_created", closedate, a.err)
                          ELSE IF Fails(j.fail, "add_to_labels")
                          THEN Uncaught(a.store, << <<"add_job", id>> >>,
                                        "issue_comment_created", closedate, "GithubException")
                          ELSE IF Fails(j.fail, "create_reaction")
                          THEN Uncaught(a.store,
                                        << <<"add_job", id>>, <<"add_to_labels", "autoclose">> >>,
                                        "issue_comment_created", closedate, "GithubException")
                          ELSE Result(200, a.store,
                                      << <<"add_job", id>>, <<"add_to_labels", "autoclose">>,
                                         <<"create_reaction", "+1">> >>,
                                      "issue_comment_created", closedate, None)
                 ELSE Result(200, s, <<>>, "issue_comment_created", NoDate, None)
        ELSE IF get_job(s, id) # NoJob
        THEN issue_comment_cancel(j, s)
        ELSE Result(200, s, <<>>, "issue_comment_created", NoDate, None)

\* pull_request_opened(j): the commits are summed up by what the handler
\* derives from them, a warning to give and labels to set.
pull_request_opened(j, s, t) ==
    IF ~j.has_repo
    THEN Uncaught(s, <<>>, "pull_request_opened", NoDate, "KeyError")
    ELSE IF Fails(j.fail, "get_repo") \/ Fails(j.fail, "get_pull")
    THEN Uncaught(s, <<>>, "pull_request_opened", NoDate, "GithubException")
    ELSE
    LET review == IF j.pr.warn THEN << <<"create_review", "REQUEST_CHANGES">> >> ELSE <<>>
        labels == IF j.pr.labels THEN << <<"set_labels", "topic">> >> ELSE <<>>
    IN  IF j.pr.warn /\ Fails(j.fail, "create_review")
        THEN Uncaught(s, <<>>, "pull_request_opened", NoDate, "GithubException")
        ELSE IF j.pr.labels /\ Fails(j.fail, "set_labels")
        THEN Uncaught(s, review, "pull_request_opened", NoDate, "GithubException")
        ELSE Result(200, s, review \o labels, "pull_request_opened", NoDate, None)

\* event_handlers
event_handlers ==
    [issues |-> [action |-> "labeled", handler |-> "issue_labeled"],
     issue_comment |-> [action |-> "created", handler |-> "issue_comment_created"],
     pull_request |-> [action |-> "opened", handler |-> "pull_request_opened"]]

Handle(handler, j, s, t) ==
    IF handler = "issue_labeled" THEN issue_labeled(j, s, t)
    ELSE IF handler = "issue_comment_created" THEN issue_comment_created(j, s, t)
    ELSE pull_request_opened(j, s, t)

\* The test that takes no sender for the bot.
triggered_by_nobody(sender) == FALSE

\* if sender == my_user
triggered_by_me(sender) == sender = my_user

\* handle_webhook that goes on with a payload it could not parse.
handle_webhook_unparsed(request, s, t) ==
    IF request.evtype = None
    THEN Result(400, s, <<>>, None, NoDate, None)
    ELSE IF request.evtype \notin DOMAIN event_handlers
    THEN Result(200, s, <<>>, None, NoDate, None)
    ELSE IF request.json = "bad" \/ request.action = None
    THEN Result(200, s, <<>>, None, NoDate, None)
    ELSE IF request.action # event_handlers[request.evtype].action
    THEN Result(200, s, <<>>, None, NoDate, None)
    ELSE
    LET handler == event_handlers[request.evtype].handler
        keyerror == request.sender = None \/ ~request.has_repo
    IN  IF ~keyerror /\ Fails(request.fail, "get_repo")
        THEN Uncaught(s, <<>>, None, NoDate, "GithubException")
        ELSE IF ~keyerror /\ triggered_by_me(request.sender)
        THEN Result(200, s, <<>>, None, NoDate, None)
        ELSE Handle(handler, request, s, t)

\* handle_webhook(request)
handle_webhook(request, s, t) ==
    IF request.evtype = None
    THEN Result(400, s, <<>>, None, NoDate, None)
    ELSE IF request.evtype \notin DOMAIN event_handlers
    THEN Result(200, s, <<>>, None, NoDate, None)
    ELSE IF request.json = "bad"
    THEN Result(400, s, <<>>, None, NoDate, None)
    ELSE IF request.action = None
    THEN Result(200, s, <<>>, None, NoDate, None)
    ELSE IF request.action # event_handlers[request.evtype].action
    THEN Result(200, s, <<>>, None, NoDate, None)
    ELSE
    LET handler == event_handlers[request.evtype].handler
        \* the KeyError of a payload without sender or repository is passed over
        keyerror == request.sender = None \/ ~request.has_repo
    IN  IF ~keyerror /\ Fails(request.fail, "get_repo")
        THEN Uncaught(s, <<>>, None, NoDate, "GithubException")
        ELSE IF ~keyerror /\ triggered_by_me(request.sender)
        THEN Result(200, s, <<>>, None, NoDate, None)
        ELSE Handle(handler, request, s, t)

\* gh_sig_valid that compares nothing: any signature header passes.
gh_sig_present(req) ==
    IF req.sig = "missing" THEN "KeyError" ELSE "True"

\* gh_sig_valid(req): the comparison's answer, or the KeyError of a request
\* without the signature header.
gh_sig_valid(req) ==
    IF req.sig = "missing" THEN "KeyError"
    ELSE IF req.sig = "valid" THEN "True" ELSE "False"

\* parse_payload()
parse_payload(request, s, t) ==
    IF gh_sig_valid(request) # "True"
    THEN Result(401, s, <<>>, None, NoDate, None)
    ELSE IF request.method = "POST"
    THEN handle_webhook(request, s, t)
    ELSE Result(200, s, <<>>, None, NoDate, None)

\* The deliveries the endpoint is offered.  A field a delivery's path never
\* reads is left at one value, and so is the failing platform operation where
\* the path makes no call to it.
Blank(sig, method, evtype, json, action) ==
    Req(sig, method, evtype, json, action, None, TRUE, 1, None, NoBody, NoPr, None)

Labeled(who, n, l, f) ==
    Req("valid", "POST", "issues", "ok", "labeled", who, TRUE, n, l, NoBody, NoPr, f)

Comment(who, n, b, f) ==
    Req("valid", "POST", "issue_comment", "ok", "created", who, TRUE, n, None, b, NoPr, f)

Opened(who, pr, f) ==
    Req("valid", "POST", "pull_request", "ok", "opened", who, TRUE, 1, None, NoBody, pr, f)

\* The platform operations a delivery's path calls after its lookups.
LabeledOps == {"get_repo", "get_issue", "create_comment"}
CommentOps(who, body) ==
    {"get_repo", "get_collaborator_permission"}
    \cup (IF body.trigger /\ get_collaborator_permission(who) = "admin"
          THEN {"add_to_labels", "create_reaction"}
          ELSE {"remove_from_labels", "create_comment"})
PullOps == {"get_repo", "create_review", "set_labels"}
\* The lookups of issue_comment_created, made before the body is looked at.
LookupOps == {"get_repo", "get_collaborator_permission"}

Requests ==
    {Req(sig, method, "issues", "ok", "labeled", "alice", TRUE, 1, triggerlabel, NoBody,
         NoPr, None) :
       sig \in {"invalid", "missing"}, method \in {"GET", "POST"}}
    \cup {Blank("valid", "GET", "issues", "ok", "labeled")}
    \cup {Blank("valid", "POST", ev, "ok", None) : ev \in {None, "ping"}}
    \cup {Blank("valid", "POST", ev, "bad", None) : ev \in DOMAIN event_handlers \cup {"ping"}}
    \cup {Blank("valid", "POST", ev, "ok", a) :
            ev \in DOMAIN event_handlers, a \in {None, "edited"}}
    \cup {Req("valid", "POST", ev, "ok", event_handlers[ev].action, who, FALSE, 1,
              triggerlabel, NoBody, NoPr, None) :
            ev \in DOMAIN event_handlers, who \in {my_user, "alice"}}
    \cup {Labeled("alice", n, triggerlabel, f) : n \in Numbers, f \in LabeledOps \cup {None}}
    \cup {Labeled(my_user, n, triggerlabel, f) : n \in Numbers, f \in {None, "get_repo"}}
    \cup {Labeled(None, n, triggerlabel, None) : n \in Numbers}
    \cup {Labeled(who, n, "bug", None) : who \in {my_user, "alice"}, n \in Numbers}
    \cup {Comment(None, n, NoBody, None) : n \in Numbers}
    \cup {Comment(my_user, n, b, f) :
            n \in Numbers, b \in {NoBody, [trigger |-> TRUE, tail |-> MaxTime]},
            f \in {None, "get_repo"}}
    \cup UNION {{Comment("alice", n, b, f) :
                    n \in Numbers,
                    f \in (CommentOps("alice", b) \ LookupOps) \cup {None}} : b \in Bodies}
    \cup UNION {{Comment("alice", n, b, f) : n \in Numbers, f \in LookupOps} :
                  b \in {NoBody, [trigger |-> TRUE, tail |-> MaxTime]}}
    \cup UNION {{Comment("bob", n, b, f) :
                    n \in Numbers, f \in CommentOps("bob", b) \cup {None}} :
                  b \in {NoBody, [trigger |-> TRUE, tail |-> MaxTime]}}
    \cup {Opened(my_user, NoPr, f) : f \in {None, "get_repo"}}
    \cup {Opened("alice", pr, None) : pr \in [warn : BOOLEAN, labels : BOOLEAN]}
    \cup {Opened("alice", [warn |-> TRUE, labels |-> TRUE], f) : f \in PullOps}

\* ------------------------------------------------------------------ state
VARIABLES
    now,    \* the clock (datetime.datetime.now())
    up,     \* the process is running: module init is done, the scheduler started
    store,  \* the jobs of jobs.sqlite
    fate,   \* per job id, what became of the job last accepted under it
    last,   \* the operation performed last and what it did
    inflight \* per worker thread, the delivery it is serving and where it is

vars == <<now, up, store, fate, last, inflight>>

\* The threads that serve deliveries side by side.
Workers == {"w1", "w2"}

JobIds == {issueid(RepoName, n) : n \in Numbers}

Has(calls, c) == \E k \in 1 .. Len(calls) : calls[k] = c

\* What else a delivery carried: the event type header, whether the payload
\* parses, the label of a label event and the date a command ends with.
Input(request) ==
    [evtype |-> request.evtype, json |-> request.json, label |-> request.label,
     tail |-> request.body.tail]

NoInput == [evtype |-> None, json |-> None, label |-> None, tail |-> NoDate]

\* The record of an operation: which it was (op), the issue number, sender and
\* command of the delivery, the run date asked for or fired (when), the HTTP
\* status, the exception that ended it, the handler that ran, the calls made,
\* the run date of the job pending for the issue before it (was), and the rest
\* of what the delivery carried (inp).
Op(op, num, who, cmd, when, resp, exc, handler, calls, was, sig, method, inp) ==
    [op |-> op, num |-> num, who |-> who, cmd |-> cmd, when |-> when, resp |-> resp,
     exc |-> exc, handler |-> handler, calls |-> calls, was |-> was, sig |-> sig,
     method |-> method, inp |-> inp]

Quiet(op, when) ==
    Op(op, 0, None, FALSE, when, 0, None, None, <<>>, NoDate, None, None, NoInput)

\* What became of the job last accepted under an id (is), the run date it was
\* accepted with while it is pending (at), and whether the latest start of the
\* process found it in the store with its run date still ahead (loaded).
Fate(is, at, loaded) == [is |-> is, at |-> at, loaded |-> loaded]

Pending(s, n) == JobsOf(s, issueid(RepoName, n)) # {}

\* A worker between two deliveries.
Idle ==
    [at |-> "idle",
     req |-> Req(None, None, None, None, None, None, TRUE, 1, None, NoBody, NoPr, None)]

Init ==
    /\ inflight = [w \in Workers |-> Idle]
    /\ now = 0
    /\ up = TRUE
    /\ store = {}
    /\ fate = [i \in JobIds |-> Fate("none", NoDate, FALSE)]
    /\ last = Quiet("init", NoDate)

\* What serving a delivery leaves in the store, in the fates of the jobs and
\* as the operation performed last, given the handler's result.
Served(request, res) ==
    /\ store' = res.store
    /\ fate' = [i \in JobIds |->
                  IF Has(res.calls, <<"add_job", i>>) /\ res.exc # "ConflictingIdError"
                  THEN Fate("pending", res.when, FALSE)
                  ELSE IF Has(res.calls, <<"remove_job", i>>)
                          /\ res.exc # "JobLookupError"
                  THEN Fate("cancelled", NoDate, fate[i].loaded)
                  ELSE fate[i]]
    /\ last' = Op("parse_payload", request.num, request.sender, request.body.trigger,
                  res.when, res.resp, res.exc, res.handler, res.calls,
                  get_job(store, issueid(RepoName, request.num)).run_at,
                  request.sig, request.method, Input(request))

\* One delivery to /payload, served from the signature check to the response.
Deliver(request) ==
    /\ up
    /\ \E res \in {parse_payload(request, store, now)} : Served(request, res)
    /\ UNCHANGED <<now, up, inflight>>

\* A fire whose executor lets what close_issue raises end the process.
FireUncaught(job, fail) ==
    /\ up
    /\ job \in store
    /\ job.run_at <= now
    /\ \E run \in {close_issue(job.args[1], job.args[2], fail)},
          missed \in {now - job.run_at > MisfireGrace} :
           /\ store' = remove_job(store, job.id).store
           /\ fate' = [fate EXCEPT ![job.id] =
                         Fate(IF missed THEN "missed" ELSE "fired", NoDate, @.loaded)]
           /\ last' = Op("fire", job.args[2], None, FALSE, job.run_at, 0,
                         IF missed THEN "missed"
                         ELSE IF run.raised THEN "GithubException" ELSE None,
                         None, IF missed THEN <<>> ELSE run.calls, job.run_at, None, None,
                         NoInput)
           /\ up' = (missed \/ ~run.raised)
    /\ UNCHANGED <<now, inflight>>

\* A fire that keeps the job for another run when close_issue raised.
FireRetry(job, fail) ==
    /\ up
    /\ job \in store
    /\ job.run_at <= now
    /\ \E run \in {close_issue(job.args[1], job.args[2], fail)},
          missed \in {now - job.run_at > MisfireGrace} :
           /\ store' = IF ~missed /\ run.raised THEN store ELSE remove_job(store, job.id).store
           /\ fate' = [fate EXCEPT ![job.id] =
                         Fate(IF missed THEN "missed" ELSE "fired", NoDate, @.loaded)]
           /\ last' = Op("fire", job.args[2], None, FALSE, job.run_at, 0,
                         IF missed THEN "missed"
                         ELSE IF run.raised THEN "GithubException" ELSE None,
                         None, IF missed THEN <<>> ELSE run.calls, job.run_at, None, None,
                         NoInput)
    /\ UNCHANGED <<now, up, inflight>>

\* The scheduler finds a job due: the job leaves the store (a date trigger has
\* no next run), and the executor runs close_issue unless the run date is
\* further back than the misfire grace time; what close_issue raises is logged.
Fire(job, fail) ==
    /\ up
    /\ job \in store
    /\ job.run_at <= now
    /\ \E run \in {close_issue(job.args[1], job.args[2], fail)},
          missed \in {now - job.run_at > MisfireGrace} :
           /\ store' = remove_job(store, job.id).store
           /\ fate' = [fate EXCEPT ![job.id] =
                         Fate(IF missed THEN "missed" ELSE "fired", NoDate, @.loaded)]
           /\ last' = Op("fire", job.args[2], None, FALSE, job.run_at, 0,
                         IF missed THEN "missed"
                         ELSE IF run.raised THEN "GithubException" ELSE None,
                         None, IF missed THEN <<>> ELSE run.calls, job.run_at, None, None,
                         NoInput)
    /\ UNCHANGED <<now, up, inflight>>

\* Time passes.  A running scheduler wakes at the run date of its next job, so
\* while the process is up no job stays due.
Tick ==
    /\ now < MaxTime
    /\ up => \A job \in store : job.run_at > now
    /\ now' = now + 1
    /\ UNCHANGED <<up, store, fate, last, inflight>>

\* The process ends; jobs.sqlite stays.
Crash ==
    /\ up
    /\ up' = FALSE
    /\ last' = Quiet("crash", now)
    /\ inflight' = [w \in Workers |-> Idle]
    /\ UNCHANGED <<now, store, fate>>

\* Module init: the scheduler is started over the job store.
Start ==
    /\ ~up
    /\ up' = TRUE
    /\ store' = jobstores(store)
    /\ fate' = [i \in JobIds |->
                  [fate[i] EXCEPT !.loaded = \E job \in JobsOf(store, i) : job.run_at > now]]
    /\ last' = Quiet("start", now)
    /\ UNCHANGED <<now, inflight>>

Next ==
    \/ \E request \in Requests : Deliver(request)
    \/ \E job \in store, fail \in CloseOps \cup {None} : Fire(job, fail)
    \/ Tick
    \/ Crash
    \/ Start

Spec == Init /\ [][Next]_vars

\* The scheduler functions called as such, on an issue fetched from the
\* platform and with any run date: SpecApi is the scheduler under these calls,
\* its fires, the clock and restarts.
ScheduleCloseIssue(n, when) ==
    /\ up
    /\ \E a \in {schedule_close_issue(store, get_issue(n), when)} :
           /\ store' = a.store
           /\ fate' = IF a.err = None
                      THEN [fate EXCEPT ![issueid(RepoName, n)] = Fate("pending", when, FALSE)]
                      ELSE fate
           /\ last' = Op("schedule_close_issue", n, None, FALSE, when, 0, a.err, None,
                         << <<"add_job", issueid(RepoName, n)>> >>,
                         get_job(store, issueid(RepoName, n)).run_at, None, None, NoInput)
    /\ UNCHANGED <<now, up, inflight>>

CancelCloseIssue(n) ==
    /\ up
    /\ \E r \in {cancel_close_issue(store, get_issue(n))} :
           /\ store' = r.store
           /\ fate' = IF r.err = None
                      THEN [fate EXCEPT ![issueid(RepoName, n)] =
                              Fate("cancelled", NoDate, @.loaded)]
                      ELSE fate
           /\ last' = Op("cancel_close_issue", n, None, FALSE, NoDate, 0, r.err, None,
                         << <<"remove_job", issueid(RepoName, get_issue(n).id)>> >>,
                         get_job(store, issueid(RepoName, n)).run_at, None, None, NoInput)
    /\ UNCHANGED <<now, up, inflight>>

NextApi ==
    \/ \E job \in store, fail \in CloseOps \cup {None} : Fire(job, fail)
    \/ Tick
    \/ Crash
    \/ Start
    \/ \E n \in Numbers, when \in 0 .. MaxTime + 1 : ScheduleCloseIssue(n, when)
    \/ \E n \in Numbers : CancelCloseIssue(n)

SpecApi == Init /\ [][NextApi]_vars

\* Deliveries served side by side, and beside the scheduler's thread.  The
\* scheduler serialises its own calls, so a handler's steps are its calls to
\* the scheduler: of the handlers only the cancel of issue_comment_created
\* makes two (get_job, line 154, then remove_job, line 155), and SpecRace
\* serves the comments that take that branch in these two steps, on any
\* worker, with the label events that schedule, the fires and the clock.
CancellingComments ==
    {Comment(who, n, NoBody, None) : who \in {"alice", "bob"}, n \in Numbers}

\* A worker takes a comment up to the test of line 154: with no job for the
\* issue the handler is through, with a job the worker stands before line 155.
CommentCheck(w, request) ==
    /\ up
    /\ inflight[w].at = "idle"
    /\ IF get_job(store, issueid(RepoName, request.num)) = NoJob
       THEN /\ \E res \in {parse_payload(request, store, now)} : Served(request, res)
            /\ UNCHANGED inflight
       ELSE /\ inflight' = [inflight EXCEPT ![w] = [at |-> "remove_job", req |-> request]]
            /\ UNCHANGED <<store, fate, last>>
    /\ UNCHANGED <<now, up>>

\* The worker goes on from line 155 to the response.
CommentRemove(w) ==
    /\ up
    /\ inflight[w].at = "remove_job"
    /\ \E res \in {issue_comment_cancel(inflight[w].req, store)} :
           Served(inflight[w].req, res)
    /\ inflight' = [inflight EXCEPT ![w] = Idle]
    /\ UNCHANGED <<now, up>>

LabelEvents == {Labeled("alice", n, triggerlabel, None) : n \in Numbers}

NextRace ==
    \/ \E request \in LabelEvents : Deliver(request)
    \/ \E w \in Workers, request \in CancellingComments : CommentCheck(w, request)
    \/ \E w \in Workers : CommentRemove(w)
    \/ \E job \in store, fail \in CloseOps \cup {None} : Fire(job, fail)
    \/ Tick

SpecRace == Init /\ [][NextRace]_vars

\* The job id over several repositories.  SpecId is the two places that
\* build an id and use it on the store, the schedule and the comment handler's
\* cancel, called for issues of any of these repositories; here last records
\* the place (op), the pair the id was built for (args) and the id.
IdRepos == {"frr/frr", "frr/frr1", "frr/docs"}
IdNumbers == (1 .. MaxIssue) \cup {10 + n : n \in 1 .. MaxIssue}

\* repo.get_issue(n) of any repository
IssueOf(r, n) == [repository |-> [full_name |-> r], number |-> n, id |-> InternalId(n)]

\* The inverse of issueid: the text before the last "@@@" and the number
\* written after it.
parse_id(id) ==
    LET seps == {k \in 1 .. Len(id) : k + 2 <= Len(id) /\ SubSeq(id, k, k + 2) = "@@@"}
    IN  IF seps = {}
        THEN <<None, 0>>
        ELSE LET k == CHOOSE q \in seps : \A p \in seps : p <= q
                 digits == SubSeq(id, k + 3, Len(id))
                 nums == {n \in IdNumbers : ToString(n) = digits}
             IN  <<SubSeq(id, 1, k - 1), IF nums = {} THEN 0 ELSE CHOOSE n \in nums : TRUE>>

\* schedule_close_issue(issue, now + one week) on an issue of any repository,
\* with at most MaxIssue + 1 jobs in the store.
ScheduleIn(r, n) ==
    /\ up
    /\ Cardinality(store) <= MaxIssue
    /\ \E a \in {schedule_close_issue(store, IssueOf(r, n), now + Week)} :
           /\ a.err = None
           /\ store' = a.store
    /\ last' = [op |-> "schedule_close_issue", args |-> <<r, n>>, id |-> issueid(r, n)]
    /\ UNCHANGED <<now, up, fate, inflight>>

\* The cancel of issue_comment_created for a comment on an issue of any
\* repository: the id is built from the payload, the job looked up and removed.
CommentIn(r, n) ==
    /\ up
    /\ \E id \in {issueid(r, n)} :
           /\ store' = IF get_job(store, id) # NoJob THEN remove_job(store, id).store
                        ELSE store
           /\ last' = [op |-> "issue_comment_created", args |-> <<r, n>>, id |-> id]
    /\ UNCHANGED <<now, up, fate, inflight>>

NextId ==
    \/ \E r \in IdRepos, n \in IdNumbers : ScheduleIn(r, n)
    \/ \E r \in IdRepos, n \in IdNumbers : CommentIn(r, n)

SpecId == Init /\ [][NextId]_vars

\* ------------------------------------------------------------- properties
IdOf(o) == issueid(RepoName, o.num)

\* The operation just performed is a fire of a job.
Fired == last' # last /\ last'.op = "fire"

\* A delivery handled by issue_comment_created whose body carries the command
\* and whose sender holds no admin permission.
NonAdminCommand(o) ==
    /\ o.op = "parse_payload"
    /\ o.handler = "issue_comment_created"
    /\ o.cmd
    /\ o.who \in Users
    /\ get_collaborator_permission(o.who) # "admin"

\* C1: the store never holds two jobs of one id; the job pending under an id
\* is the one job carrying the run date of the latest schedule accepted for
\* it; and the job that fires carries that latest run date, so a schedule that
\* was replaced never fires.
C1_OneJobLatestRunAt ==
    /\ [](/\ \A j1, j2 \in store : j1.id = j2.id => j1 = j2
          /\ \A i \in JobIds :
                fate[i].is = "pending" =>
                    /\ JobsOf(store, i) # {}
                    /\ \A job \in JobsOf(store, i) : job.run_at = fate[i].at)
    /\ [][Fired => last'.when = fate[IdOf(last')].at]_vars

\* A schedule has just replaced a job pending with another run date, and the
\* store holds the one job with the new run date.
C1_Witness ==
    /\ last.op = "parse_payload"
    /\ last.exc = None
    /\ Has(last.calls, <<"add_job", IdOf(last)>>)
    /\ last.was # NoDate
    /\ last.was # last.when
    /\ JobsOf(store, IdOf(last)) = {Job(IdOf(last), last.when, <<RepoName, last.num>>)}

\* C2: a job accepted and not cancelled or replaced since is in the store
\* until it is dispatched, is dispatched not before its run date, and never
\* leaves the store without close_issue being invoked, restarts included.
C2_DispatchedExactlyOnce ==
    /\ \A i \in JobIds :
          /\ fate[i].is # "missed"
          /\ fate[i].is = "pending" => JobsOf(store, i) # {}
    /\ last.op = "fire" => last.when <= now

\* C3 as stated: a comment with the command from a sender without admin
\* permission leaves the job store as it was.
C3_NoSchedulingEffect ==
    [][NonAdminCommand(last') => store' = store]_vars

\* C3: a comment with the command from a sender without admin permission adds
\* no job and changes no run date; all it can do to the store is remove the
\* job pending for its issue, and with none pending the store is unchanged.
C3_NoNewOrRetimedJob ==
    [][NonAdminCommand(last') =>
          \/ store' = store
          \/ /\ last'.was # NoDate
             /\ store' = store \ JobsOf(store, IdOf(last'))]_vars

\* The command of a sender without admin permission has been handled while a
\* job was pending for the issue.
C3_Witness ==
    /\ NonAdminCommand(last)
    /\ last.resp = 200
    /\ last.was # NoDate
    /\ ~Pending(store, last.num)

\* C4: a job that a cancel removed is not in the store, and nothing but a new
\* schedule for its id follows: it is never dispatched and never missed.
C4_CancelledNeverFires ==
    /\ [](\A i \in JobIds : fate[i].is = "cancelled" => JobsOf(store, i) = {})
    /\ [][\A i \in JobIds :
            fate[i].is = "cancelled" => fate'[i].is \in {"cancelled", "pending"}]_vars

\* A comment cancelled the job, the process is up and the clock is past the
\* run date the job had.
C4_Witness ==
    /\ last.op = "parse_payload"
    /\ Has(last.calls, <<"remove_job", IdOf(last)>>)
    /\ fate[IdOf(last)].is = "cancelled"
    /\ up
    /\ last.was # NoDate
    /\ now > last.was

\* C5: after cancel_close_issue(issue) no job is pending for the issue.
C5_CancelRemovesScheduled ==
    last.op = "cancel_close_issue" => ~Pending(store, last.num)

\* C6: cancel_close_issue with nothing in the store ends without an error.
C6_CancelAbsentNoError ==
    (last.op = "cancel_close_issue" /\ last.was = NoDate) => last.exc = None

\* C7: after a fire no job of that id is in the store, whether close_issue
\* returned or raised, and a job that fired is not fired again: only a new
\* schedule follows for its id.
C7_FiredJobIsGone ==
    /\ [](last.op = "fire" => ~Pending(store, last.num))
    /\ [][\A i \in JobIds :
            fate[i].is \in {"fired", "missed"} => fate'[i].is \in {fate[i].is, "pending"}]_vars

\* A fire in which close_issue raised, and the job is gone.
C7_Witness ==
    /\ last.op = "fire"
    /\ last.exc = "GithubException"
    /\ fate[IdOf(last)].is = "fired"
    /\ ~Pending(store, last.num)

\* C8: a job the latest start found in the store with its run date ahead is
\* not lost and not missed: while it is pending and the process is up it is
\* in the store, once, and its run date has not passed; and it leaves the
\* store only dispatched (or cancelled).
C8_RestartKeepsJob ==
    \A i \in JobIds :
        fate[i].loaded =>
            /\ fate[i].is \in {"pending", "fired", "cancelled"}
            /\ (fate[i].is = "pending" /\ up) =>
                  /\ Cardinality(JobsOf(store, i)) = 1
                  /\ \A job \in JobsOf(store, i) : job.run_at >= now
            /\ fate[i].is = "fired" => JobsOf(store, i) = {}

\* A job that was in the store over a restart has been dispatched.
C8_Witness ==
    /\ last.op = "fire"
    /\ last.exc = None
    /\ fate[IdOf(last)].loaded
    /\ fate[IdOf(last)].is = "fired"

\* C9: a job whose run date has passed is dispatched when the scheduler
\* processes it.
C9_PastDueJobDispatched ==
    (last.op = "fire" /\ last.when <= now) => last.exc # "missed"

\* C10: a delivery that reaches handle_webhook with the bot as sender is
\* answered 200, no handler runs and no call is made.
C10_BotEventsIgnored ==
    (/\ last.op = "parse_payload"
     /\ last.sig = "valid"
     /\ last.method = "POST"
     /\ last.who = my_user) =>
        /\ last.resp = 200
        /\ last.handler = None
        /\ last.calls = <<>>

\* The step is a delivery served by the endpoint.
Delivered == last'.op = "parse_payload" /\ now' = now

\* The handler found the payload's keys and its lookups on the platform
\* (repository, issue, permission) succeeded.
Looked(o) ==
    /\ o.exc # "KeyError"
    /\ ~(o.exc = "GithubException" /\ o.calls = <<>>)

\* A comment handled by issue_comment_created whose body carries the command
\* and whose sender holds admin permission.
AdminCommand(o) ==
    /\ o.op = "parse_payload"
    /\ o.handler = "issue_comment_created"
    /\ o.cmd
    /\ o.who \in Users
    /\ get_collaborator_permission(o.who) = "admin"

\* The jobs of the other issues are as they were.
OthersKept(o) == store' \ JobsOf(store', IdOf(o)) = store \ JobsOf(store, IdOf(o))

\* C11: a label event with the trigger label on issue n at time T leaves the
\* one job "r@@@n" due at T + one week, a label event with another label
\* leaves the store as it was, and an admin command with a date after T leaves
\* the one job "r@@@n" due at that date, whatever was pending for n before.
C11_LabelThenCommandReschedules ==
    /\ [][(Delivered /\ last'.handler = "issue_labeled" /\ Looked(last')) =>
             IF last'.inp.label = triggerlabel
             THEN /\ JobsOf(store', IdOf(last')) =
                        {Job(RepoName \o "@@@" \o ToString(last'.num), now + Week,
                             <<RepoName, last'.num>>)}
                  /\ OthersKept(last')
             ELSE store' = store]_vars
    /\ [][(Delivered /\ AdminCommand(last') /\ Looked(last') /\ last'.inp.tail > now) =>
             /\ JobsOf(store', IdOf(last')) =
                   {Job(RepoName \o "@@@" \o ToString(last'.num), last'.inp.tail,
                        <<RepoName, last'.num>>)}
             /\ OthersKept(last')]_vars

\* An admin command has moved the job that a label event had scheduled one
\* week ahead to another date, and the issue has the one job.
C11_Witness ==
    /\ AdminCommand(last)
    /\ last.resp = 200
    /\ last.was = now + Week
    /\ last.inp.tail > now
    /\ last.inp.tail # last.was
    /\ Cardinality(JobsOf(store, IdOf(last))) = 1
    /\ \A job \in JobsOf(store, IdOf(last)) : job.run_at = last.inp.tail

\* A comment handled by issue_comment_created that is not an admin's command,
\* from a sender that is not the bot.
OtherComment(o) ==
    /\ o.op = "parse_payload"
    /\ o.handler = "issue_comment_created"
    /\ o.who \in Users \ {my_user}
    /\ ~(o.cmd /\ get_collaborator_permission(o.who) = "admin")

\* C12: when issue_comment_created returns from a comment that is not an
\* admin's command, a job that was pending for the issue is out of the store,
\* the trigger label was removed and the notice posted, in that order after
\* the remove, and the other jobs are untouched; with no job pending nothing
\* is called and nothing changes.  A fire only ever dispatches a job that is
\* pending, so the job a comment cancelled does not close the issue.
C12_CommentCancelsPending ==
    /\ [][(Delivered /\ OtherComment(last') /\ last'.resp = 200) =>
             IF Pending(store, last'.num)
             THEN /\ ~Pending(store', last'.num)
                  /\ OthersKept(last')
                  /\ last'.calls = << <<"remove_job", IdOf(last')>>,
                                      <<"remove_from_labels", triggerlabel>>,
                                      <<"create_comment", noautoclosemsg>> >>
                  /\ fate'[IdOf(last')].is = "cancelled"
             ELSE /\ store' = store
                  /\ fate' = fate
                  /\ last'.calls = <<>>]_vars
    /\ [][Fired => fate[IdOf(last')].is = "pending"]_vars

\* An admin's comment without the command has cancelled the job pending for
\* the issue.
C12_Witness ==
    /\ OtherComment(last)
    /\ last.who = "alice"
    /\ ~last.cmd
    /\ last.resp = 200
    /\ last.was # NoDate
    /\ Has(last.calls, <<"create_comment", noautoclosemsg>>)
    /\ ~Pending(store, last.num)

C14_BadSignatureRejected ==
    /\ []((last.op = "parse_payload" /\ last.sig # "valid") =>
             /\ last.resp = 401
             /\ last.handler = None
             /\ last.calls = <<>>)
    /\ [][(Delivered /\ last'.sig # "valid") => (store' = store /\ fate' = fate)]_vars
    /\ [][(Delivered /\ (store' # store \/ last'.calls # <<>>)) => last'.sig = "valid"]_vars

\* A label event with the trigger label and without a signature header has
\* been answered 401 while a job was pending, and the job is as it was.
C14_Witness ==
    /\ last.op = "parse_payload"
    /\ last.sig = "missing"
    /\ last.method = "POST"
    /\ last.inp.label = triggerlabel
    /\ last.resp = 401
    /\ last.was # NoDate
    /\ \A job \in JobsOf(store, IdOf(last)) : job.run_at = last.was
    /\ Pending(store, last.num)

\* A POST whose signature verified and that has no event type header or a
\* payload that is not JSON.
Malformed(o) ==
    /\ o.op = "parse_payload"
    /\ o.sig = "valid"
    /\ o.method = "POST"
    /\ (o.inp.evtype = None \/ o.inp.json = "bad")

\* C15 as stated: every such delivery is answered 400, whatever its event
\* type, and reaches no handler and no call.
C15_MalformedAnswered400 ==
    Malformed(last) =>
        /\ last.resp = 400
        /\ last.handler = None
        /\ last.calls = <<>>

\* C15: such a delivery is answered 400 when the event type header is missing
\* or the event type is one of event_handlers; with an event type that is not
\* in event_handlers it is answered 200 and the payload is not parsed.  In
\* every case no handler runs, nothing is called, nothing is raised, and store
\* and jobs' fates are as before.
C15_MalformedRejectedOrIgnored ==
    /\ [](Malformed(last) =>
             /\ last.resp = IF last.inp.evtype # None
                                /\ last.inp.evtype \notin DOMAIN event_handlers
                             THEN 200 ELSE 400
             /\ last.handler = None
             /\ last.calls = <<>>
             /\ last.exc = None)
    /\ [][(Delivered /\ Malformed(last')) => (store' = store /\ fate' = fate)]_vars

\* A comment event whose payload is not JSON has been answered 400 while a job
\* was pending, and the job is still pending.
C15_Witness ==
    /\ Malformed(last)
    /\ last.inp.evtype = "issue_comment"
    /\ last.inp.json = "bad"
    /\ last.resp = 400
    /\ store # {}

\* The job was dispatched: close_issue ran.
Ran(o) == o.op = "fire" /\ o.exc # "missed"

\* C16: in a run of close_issue the label is removed only after the issue was
\* set to closed, and once the issue is closed close_issue returns normally
\* whether or not the label removal succeeded.
C16_LabelRemovalSwallowed ==
    Ran(last) =>
        /\ \A k \in 1 .. Len(last.calls) :
              last.calls[k][1] = "remove_from_labels" =>
                  \E j \in 1 .. k - 1 : last.calls[j] = <<"edit", "closed">>
        /\ Has(last.calls, <<"edit", "closed">>) => last.exc = None

\* close_issue has closed the issue, the label removal failed, and it returned
\* normally.
C16_Witness ==
    /\ Ran(last)
    /\ last.calls = << <<"edit", "closed">> >>
    /\ last.exc = None
    /\ fate[IdOf(last)].is = "fired"

\* C17 as stated: no run of close_issue ends in an exception.
C17_CloseIssueNeverRaises ==
    Ran(last) => last.exc = None

\* C17: a failure of a platform call during a fire does not end the process
\* and is not retried: what close_issue raises (the failure of get_repo,
\* get_issue or edit, before anything was changed on the platform) is caught
\* and logged by the executor, the process stays up and the job is out of the
\* store.
C17_FailureLoggedByExecutor ==
    [][Fired =>
          /\ up'
          /\ ~Pending(store', last'.num)
          /\ last'.exc \in {None, "GithubException", "missed"}
          /\ last'.exc = "GithubException" => last'.calls = <<>>]_vars

\* close_issue has raised in a fire, nothing was changed on the platform, and
\* the process is up.
C17_Witness ==
    /\ Ran(last)
    /\ last.exc = "GithubException"
    /\ last.calls = <<>>
    /\ up
    /\ store = {}

\* C18: an admin's command whose date did not parse, or is not after the
\* time of the delivery, makes no call (scheduler, label, reaction) and leaves
\* store and jobs' fates as before; and every add_job a delivery causes asks for a run
\* date after the time of the delivery.
C18_UnusableDateChangesNothing ==
    /\ [][(/\ Delivered
            /\ AdminCommand(last')
            /\ Looked(last')
            /\ (last'.inp.tail = NoDate \/ last'.inp.tail <= now)) =>
               /\ store' = store
               /\ fate' = fate
               /\ last'.calls = <<>>]_vars
    /\ [][(Delivered /\ \E i \in JobIds : Has(last'.calls, <<"add_job", i>>)) =>
               /\ last'.when > now
               /\ \A job \in JobsOf(store', IdOf(last')) : job.run_at > now]_vars

\* An admin's command with a date that is not ahead has been handled while a
\* job was pending for the issue, and the job is pending with its run date.
C18_Witness ==
    /\ AdminCommand(last)
    /\ last.inp.tail # NoDate
    /\ last.inp.tail <= now
    /\ last.resp = 200
    /\ last.calls = <<>>
    /\ last.was # NoDate
    /\ JobsOf(store, IdOf(last)) = {Job(IdOf(last), last.was, <<RepoName, last.num>>)}

\* C20: a delivery whose sender is the bot, such as the comment event of the
\* bot's own notice or the label event of the label the bot attached, leaves
\* the store and the jobs' fates as they were: a job pending for the issue
\* stays pending with its run date, neither cancelled nor moved to one week
\* from now.
C20_OwnEventsKeepSchedule ==
    [][(Delivered /\ last'.who = my_user) =>
          /\ store' = store
          /\ fate' = fate
          /\ \A i \in JobIds :
                ~Has(last'.calls, <<"add_job", i>>) /\ ~Has(last'.calls, <<"remove_job", i>>)]_vars

\* The bot's own label event has been answered while a job was pending for
\* the issue with a run date other than one week from now, and the job is
\* pending with the run date it had.
C20_Witness ==
    /\ last.op = "parse_payload"
    /\ last.who = my_user
    /\ last.resp = 200
    /\ last.inp.evtype = "issues"
    /\ last.inp.label = triggerlabel
    /\ last.was # now + Week
    /\ last.was # NoDate
    /\ fate[IdOf(last)].is = "pending"
    /\ JobsOf(store, IdOf(last)) = {Job(IdOf(last), last.was, <<RepoName, last.num>>)}

\* C19: whenever issue_comment_created calls remove_job the job is in the
\* store: no delivery handled by it ends in JobLookupError, and one that
\* called remove_job, the platform not failing, went on to the label removal
\* and the notice.
C19_RemoveFindsJob ==
    (last.op = "parse_payload" /\ last.handler = "issue_comment_created") =>
        /\ last.exc # "JobLookupError"
        /\ (Has(last.calls, <<"remove_job", IdOf(last)>>) /\ last.exc # "GithubException") =>
              Has(last.calls, <<"create_comment", noautoclosemsg>>)
====
